---- MODULE Spec2Model ----
(***************************************************************************)
(* Model of ModernEmailClient (src/src/main.py): account management        *)
(* (config mapping, config file, keyring vault, account selector), the     *)
(* IMAP refresh / view handlers, the SMTP send handler and the GUI         *)
(* thread's event loops (main loop and the nested loops of modal           *)
(* dialogs), on which every handler runs to completion.                    *)
(*                                                                         *)
(* Handlers wired by setup_ui / setup_menu whose bodies are not part of    *)
(* main.py (switch_account, delete_email, show_settings, show_help,        *)
(* remove_account) are taken to be bound callbacks without effect on the   *)
(* state modelled here.                                                    *)
(***************************************************************************)
EXTENDS Integers, Sequences, FiniteSets, TLC

\* ------------------------------------------------------------- bounds
MaxMsgs == 22        \* messages a mailbox may hold
MaxNew == 1          \* messages delivered between two displayed refreshes
MaxFailAt == 2       \* latest iteration of the fetch loop that is made to fail
MaxDepth == 2        \* handler frames nested through modal event loops
MaxAttach == 1       \* attachments added in one compose dialog
MaxRow == 1          \* highest table row the user double-clicks

\* ------------------------------------------------- program constants
FetchLimit == 20     \* messages[0].split()[-20:]

Alice == "alice@example.com"
Bob == "bob@example.com"
Address == {Alice, Bob}
Secret == {"hunter2", "s3cret"}
NotFound == "not found"
Provider == {"Gmail", "Outlook"}

\* providers, add_account
providers(p) ==
    IF p = "Gmail"
    THEN [smtp_server |-> "smtp.gmail.com", smtp_port |-> 587,
          imap_server |-> "imap.gmail.com", imap_port |-> 993]
    ELSE [smtp_server |-> "smtp-mail.outlook.com", smtp_port |-> 587,
          imap_server |-> "outlook.office365.com", imap_port |-> 993]

VARIABLES
    proc,              \* the process: notstarted, running, exited, aborted, crashed
    file,              \* CONFIG_FILE: [exists, text]
    config,            \* self.config
    account_selector,  \* QComboBox: [items, cur]
    current_setup,     \* self.current_setup: <<>> while the attribute is unset
    vault,             \* keyring, service "modern-mail"
    email_table,       \* rows of self.email_table
    progress,          \* self.progress.isVisible()
    attachments,       \* len(self.attachments)
    mailbox,           \* the IMAP server's INBOX of each address
    stack,             \* the GUI thread's handler frames, innermost last
    failedAdds,        \* history: addresses whose add stopped at the vault write
    shown              \* history: account and SEARCH size behind email_table

vars == <<proc, file, config, account_selector, current_setup, vault,
          email_table, progress, attachments, mailbox, stack, failedAdds, shown>>

\* ------------------------------------------------------------ helpers
Min(a, b) == IF a < b THEN a ELSE b
Max(a, b) == IF a > b THEN a ELSE b
Range(s) == {s[i] : i \in DOMAIN s}

\* s[:20], the slice a wrong sign would take
First20(s) == SubSeq(s, 1, Min(Len(s), FetchLimit))

\* s[-20:]
Last20(s) == SubSeq(s, Max(1, Len(s) - FetchLimit + 1), Len(s))

\* reversed(emails)
Reversed(s) == [i \in 1..Len(s) |-> s[Len(s) + 1 - i]]

\* self.config = {}
EmptyConfig == [has |-> FALSE, keys |-> <<>>, val |-> [a \in {} |-> providers("Gmail")]]

\* a setdefault-like write that keeps an existing entry
ConfigSetIfAbsent(c, e, s) ==
    IF e \in Range(c.keys) THEN [c EXCEPT !.has = TRUE]
    ELSE [has |-> TRUE, keys |-> Append(c.keys, e),
          val |-> [a \in Range(c.keys) \cup {e} |-> IF a = e THEN s ELSE c.val[a]]]

\* self.config['accounts'][email] = self.current_setup
\* (a dict keeps the position of a key that is overwritten)
ConfigSet(c, e, s) ==
    [has |-> TRUE,
     keys |-> IF e \in Range(c.keys) THEN c.keys ELSE Append(c.keys, e),
     val |-> [a \in Range(c.keys) \cup {e} |-> IF a = e THEN s ELSE c.val[a]]]

\* json.dumps(self.config, indent=2): an object as its ordered member list
json_dumps(c) ==
    IF c.has
    THEN << <<"accounts", [i \in 1..Len(c.keys) |-> <<c.keys[i], c.val[c.keys[i]]>>]>> >>
    ELSE <<>>

\* json.loads(CONFIG_FILE.read_text())
json_loads(t) ==
    IF t = <<>> THEN EmptyConfig
    ELSE LET m == t[1][2] IN
         [has |-> TRUE,
          keys |-> [i \in 1..Len(m) |-> m[i][1]],
          val |-> [a \in {m[i][1] : i \in 1..Len(m)} |->
                     (CHOOSE x \in {m[i][2] : i \in {j \in 1..Len(m) : m[j][1] = a}} : TRUE)]]

NoFile == [exists |-> FALSE, text |-> <<>>]

\* update_account_list: clear(), then addItems(keys) when 'accounts' is non-empty;
\* the first item added to an empty combo box becomes the current one
update_account_list(c) ==
    IF c.has /\ c.keys # <<>> THEN [items |-> c.keys, cur |-> 1]
    ELSE [items |-> <<>>, cur |-> 0]

\* self.account_selector.currentText()
currentText(sel) == IF sel.items = <<>> THEN "" ELSE sel.items[sel.cur]

EmptyMailbox == [n |-> 0, seen |-> {}]
NoShown == [acct |-> "", n |-> -1]

\* ------------------------------------------------------------- frames
Frame(op, pc) ==
    [op |-> op, pc |-> pc, acct |-> "", sess |-> "Disconnected", src |-> "",
     chosen |-> <<>>, ids |-> <<>>, emails |-> <<>>, row |-> 0, email_id |-> 0,
     smtp |-> <<>>]

Top == stack[Len(stack)]
SetTop(f) == [stack EXCEPT ![Len(stack)] = f]
Pop == SubSeq(stack, 1, Len(stack) - 1)

\* what the GUI thread is doing: running an event loop or inside a handler
Loop ==
    IF proc # "running" THEN "none"
    ELSE IF stack = <<>> THEN "main"
    ELSE IF Top.pc \in {"exec", "viewer", "msgbox", "info"} THEN "modal"
    ELSE "busy"

\* a timer that could fire while a handler is still running
TimerCanFire_Threaded == proc = "running"

\* QTimer.timeout is delivered by whichever event loop the GUI thread runs
TimerCanFire == Loop \in {"main", "modal"}

\* input to the main window is delivered only when no modal dialog is open
MainWindowInput == Loop = "main"

\* process memory after the process ended
MemoryGone ==
    /\ config' = EmptyConfig
    /\ account_selector' = [items |-> <<>>, cur |-> 0]
    /\ current_setup' = <<>>
    /\ email_table' = <<>>
    /\ progress' = FALSE
    /\ attachments' = 0
    /\ stack' = <<>>
    /\ failedAdds' = {}
    /\ shown' = NoShown

Init ==
    /\ proc = "notstarted"
    /\ file = NoFile
    /\ config = EmptyConfig
    /\ account_selector = [items |-> <<>>, cur |-> 0]
    /\ current_setup = <<>>
    /\ vault = [a \in Address |-> NotFound]
    /\ email_table = <<>>
    /\ progress = FALSE
    /\ attachments = 0
    /\ mailbox = [a \in Address |-> EmptyMailbox]
    /\ stack = <<>>
    /\ failedAdds = {}
    /\ shown = NoShown

\* ------------------------------------------------- process life cycle
\* __init__: load_config() runs before setup_ui() has created account_selector,
\* so update_account_list raises AttributeError whenever the file exists
Start ==
    /\ proc \in {"notstarted", "exited", "aborted"}
    /\ IF file.exists
       THEN /\ proc' = "crashed"
            /\ UNCHANGED <<config, account_selector, current_setup, email_table,
                           progress, attachments, stack, failedAdds, shown>>
       ELSE /\ proc' = "running"
            /\ MemoryGone
    /\ UNCHANGED <<file, vault, mailbox>>

\* File > Exit, self.close
Exit ==
    /\ MainWindowInput
    /\ proc' = "exited"
    /\ MemoryGone
    /\ UNCHANGED <<file, vault, mailbox>>

\* the user picks another entry of account_selector
SelectAccount(i) ==
    /\ MainWindowInput
    /\ i \in 1..Len(account_selector.items)
    /\ i # account_selector.cur
    /\ account_selector' = [account_selector EXCEPT !.cur = i]
    /\ UNCHANGED <<proc, file, config, current_setup, vault, email_table, progress,
                   attachments, mailbox, stack, failedAdds, shown>>

\* the server appends a message to an INBOX; deliveries are taken between the
\* user's operations, at most MaxNew of them since the table was last filled
Deliver(a) ==
    /\ Loop = "main"
    /\ mailbox[a].n < MaxMsgs
    /\ shown.n < 0 \/ mailbox[a].n - shown.n < MaxNew
    /\ mailbox' = [mailbox EXCEPT ![a].n = @ + 1]
    /\ UNCHANGED <<proc, file, config, account_selector, current_setup, vault,
                   email_table, progress, attachments, stack, failedAdds, shown>>

\* ------------------------------------------------------ add account
\* Account > Add Account: add_account opens the dialog and runs dialog.exec()
add_account ==
    /\ MainWindowInput
    /\ Len(stack) < MaxDepth
    /\ stack' = Append(stack, Frame("add", "exec"))
    /\ UNCHANGED <<proc, file, config, account_selector, current_setup, vault,
                   email_table, progress, attachments, mailbox, failedAdds, shown>>

\* a provider button of the dialog: quick_setup
quick_setup(p) ==
    /\ stack # <<>> /\ Top.op = "add" /\ Top.pc = "exec"
    /\ config' = [config EXCEPT !.has = TRUE]
    /\ current_setup' = <<providers(p)>>
    /\ stack' = SetTop([Top EXCEPT !.chosen = <<providers(p)>>])
    /\ UNCHANGED <<proc, file, account_selector, vault, email_table, progress,
                   attachments, mailbox, failedAdds, shown>>

\* the frame refresh_emails starts with, the account being selected and
\* configured: account, settings and password are read (a missing secret is
\* None, which makes login fail) and the progress bar is shown
RefreshFrame(sel, src) ==
    [Frame("refresh", "connect") EXCEPT !.acct = currentText(sel), !.src = src]

\* "Save Account": save_account(dialog, email, password) with a setup present.
\* vaultOk: keyring.set_password returns; otherwise it raises and the exception
\* leaves the slot: with an excepthook installed the event loop goes on
\* (hook), without one PyQt aborts the process.
save_account(e, pw, vaultOk, hook) ==
    /\ stack # <<>> /\ Top.op = "add" /\ Top.pc = "exec"
    /\ current_setup # <<>>
    /\ LET c1 == ConfigSet(config, e, current_setup[1]) IN
       IF vaultOk
       THEN /\ config' = c1
            /\ vault' = [vault EXCEPT ![e] = pw]
            /\ file' = [exists |-> TRUE, text |-> json_dumps(c1)]
            /\ account_selector' = update_account_list(c1)
            /\ failedAdds' = failedAdds \ {e}
            \* dialog.accept(); self.refresh_emails()
            /\ progress' = TRUE
            /\ stack' = SetTop(RefreshFrame(update_account_list(c1),
                                IF e \in Range(config.keys) /\ vault[e] # NotFound
                                THEN "save_over" ELSE "save_new"))
            /\ UNCHANGED <<proc, current_setup, email_table, attachments, mailbox, shown>>
       ELSE IF hook
       THEN /\ config' = c1
            /\ failedAdds' = IF e \in Range(config.keys) THEN failedAdds
                             ELSE failedAdds \cup {e}
            /\ UNCHANGED <<proc, file, account_selector, current_setup, vault,
                           email_table, progress, attachments, mailbox, stack, shown>>
       ELSE /\ proc' = "aborted"
            /\ MemoryGone
            /\ UNCHANGED <<file, vault, mailbox>>

\* the dialog is closed without saving (add_account or compose_email returns)
CloseDialog ==
    /\ stack # <<>> /\ Top.pc = "exec"
    /\ stack' = Pop
    /\ UNCHANGED <<proc, file, config, account_selector, current_setup, vault,
                   email_table, progress, attachments, mailbox, failedAdds, shown>>

\* ------------------------------------------------------- IMAP server
\* SEARCH ALL: the sequence numbers 1..n, ascending (messages[0].split())
SearchAll(mb) == [i \in 1..mb.n |-> i]

\* FETCH num (RFC822) on a mailbox selected read-write: the server sets \Seen
ServerFetchRFC822(mb, id) == [mb EXCEPT !.seen = @ \cup {id}]

\* FETCH num (FLAGS): "\\Seen" in flags[0].decode()
ServerFetchFlags(mb, id) == id \in mb.seen

\* ----------------------------------------------------- refresh_emails
\* an exception that leaves the with block without closing the session
FailNoClose(f) == [f EXCEPT !.pc = "msgbox"]

\* an exception inside the try: IMAP4.__exit__ / SMTP.__exit__ close the
\* session, the except clause opens the modal QMessageBox
Fail(f) == [f EXCEPT !.sess = "Disconnected", !.pc = "msgbox"]

\* the for loop of refresh_emails over todo[i..], against mailbox mb:
\* failAt = 0 for no failure, otherwise the iteration that raises, before
\* (afterSeen = FALSE: FETCH RFC822 fails) or after the server handled FETCH
\* RFC822 (FETCH FLAGS fails, or the message's headers or date do not parse).
RECURSIVE fetch_loop(_, _, _, _, _, _)
fetch_loop(mb, todo, i, emails, failAt, afterSeen) ==
    IF i > Len(todo) THEN [mb |-> mb, emails |-> emails, ok |-> TRUE]
    ELSE IF i = failAt
    THEN [mb |-> IF afterSeen THEN ServerFetchRFC822(mb, todo[i]) ELSE mb,
          emails |-> emails, ok |-> FALSE]
    ELSE LET mb1 == ServerFetchRFC822(mb, todo[i])
             is_read == ServerFetchFlags(mb1, todo[i])
         IN fetch_loop(mb1, todo, i + 1,
                       Append(emails, [id |-> todo[i],
                                       status |-> IF is_read THEN "read" ELSE "unread",
                                       subject |-> todo[i]]),
                       failAt, afterSeen)

\* rows set by the setItem loop: status and the text of message data['id']
TableRows(emails) ==
    [i \in 1..Len(emails) |->
        [status |-> Reversed(emails)[i].status, msg |-> Reversed(emails)[i].subject]]

\* the refresh timer fires: refresh_emails up to progress.setVisible(True)
TimerTimeout ==
    /\ TimerCanFire
    /\ Len(stack) < MaxDepth
    /\ currentText(account_selector) # ""
    /\ progress' = TRUE
    /\ stack' = Append(stack, RefreshFrame(account_selector, "event"))
    /\ UNCHANGED <<proc, file, config, account_selector, current_setup, vault,
                   email_table, attachments, mailbox, failedAdds, shown>>

\* the Refresh button
RefreshClicked ==
    /\ MainWindowInput
    /\ Len(stack) < MaxDepth
    /\ currentText(account_selector) # ""
    /\ progress' = TRUE
    /\ stack' = Append(stack, RefreshFrame(account_selector, "event"))
    /\ UNCHANGED <<proc, file, config, account_selector, current_setup, vault,
                   email_table, attachments, mailbox, failedAdds, shown>>

ImapFrame == stack # <<>> /\ Top.op \in {"refresh", "view"}

UnchangedButStack ==
    UNCHANGED <<proc, file, config, account_selector, current_setup, vault,
                email_table, progress, attachments, mailbox, failedAdds, shown>>

\* imaplib.IMAP4_SSL(imap_server, imap_port)
ImapConnect(ok) ==
    /\ ImapFrame /\ Top.pc = "connect"
    /\ stack' = SetTop(IF ok THEN [Top EXCEPT !.sess = "Connected", !.pc = "login"]
                       ELSE Fail(Top))
    /\ UnchangedButStack

\* imap.login(account, password)
ImapLogin(ok) ==
    /\ ImapFrame /\ Top.pc = "login"
    /\ stack' = SetTop(IF ok THEN [Top EXCEPT !.sess = "Authenticated", !.pc = "select"]
                       ELSE Fail(Top))
    /\ UnchangedButStack

\* imap.select("INBOX"): a NO response is returned, not raised
ImapSelect(ok) ==
    /\ ImapFrame /\ Top.pc = "select"
    /\ stack' = SetTop(IF ok THEN [Top EXCEPT !.sess = "MailboxSelected", !.pc = "search"]
                       ELSE [Top EXCEPT !.pc = "search"])
    /\ UnchangedButStack

\* imap.search(None, "ALL"): raises unless the mailbox is selected
ImapSearch(ok) ==
    /\ ImapFrame /\ Top.pc = "search"
    /\ stack' = SetTop(IF ok /\ Top.sess = "MailboxSelected"
                       THEN [Top EXCEPT !.ids = SearchAll(mailbox[Top.acct]), !.pc = "fetch"]
                       ELSE Fail(Top))
    /\ UnchangedButStack

\* the iterations made to fail: none (0) or one of the first MaxFailAt
FailPoints(todo) == {k \in 0..Len(todo) : k <= MaxFailAt}

\* the fetch loop over messages[0].split()[-20:]
RefreshFetch(failAt, afterSeen) ==
    /\ stack # <<>> /\ Top.op = "refresh" /\ Top.pc = "fetch"
    /\ failAt \in FailPoints(Last20(Top.ids))
    /\ LET r == fetch_loop(mailbox[Top.acct], Last20(Top.ids), 1, <<>>, failAt, afterSeen) IN
       /\ mailbox' = [mailbox EXCEPT ![Top.acct] = r.mb]
       /\ stack' = SetTop(IF r.ok THEN [Top EXCEPT !.emails = r.emails, !.pc = "display"]
                          ELSE Fail([Top EXCEPT !.emails = r.emails]))
    /\ UNCHANGED <<proc, file, config, account_selector, current_setup, vault,
                   email_table, progress, attachments, failedAdds, shown>>

\* setRowCount / setItem over reversed(emails), then the with block is left
RefreshDisplay ==
    /\ stack # <<>> /\ Top.op = "refresh" /\ Top.pc = "display"
    /\ email_table' = TableRows(Top.emails)
    /\ shown' = [acct |-> Top.acct, n |-> Len(Top.ids)]
    /\ stack' = SetTop([Top EXCEPT !.sess = "Disconnected", !.pc = "displayed"])
    /\ UNCHANGED <<proc, file, config, account_selector, current_setup, vault,
                   progress, attachments, mailbox, failedAdds>>

\* finally: progress.setVisible(False); refresh_emails returns. From the
\* except clause this follows the user's OK on the QMessageBox.
RefreshFinally ==
    /\ stack # <<>> /\ Top.op = "refresh" /\ Top.pc \in {"displayed", "msgbox"}
    /\ progress' = FALSE
    /\ stack' = Pop
    /\ UNCHANGED <<proc, file, config, account_selector, current_setup, vault,
                   email_table, attachments, mailbox, failedAdds, shown>>

\* --------------------------------------------------------- view_email
\* a double click on row `row` of email_table
view_email(row) ==
    /\ MainWindowInput
    /\ Len(stack) < MaxDepth
    /\ row \in 0..(Len(email_table) - 1)
    /\ currentText(account_selector) # ""
    /\ stack' = Append(stack, [Frame("view", "connect") EXCEPT
                                  !.acct = currentText(account_selector), !.row = row])
    /\ UnchangedButStack

\* email_id = messages[0].split()[-20:][row]; imap.fetch(email_id, "(RFC822)");
\* the body is decoded and viewer.exec() runs inside the with block
ViewFetch(fetchOk, decodeOk) ==
    /\ stack # <<>> /\ Top.op = "view" /\ Top.pc = "fetch"
    /\ LET todo == Last20(Top.ids) IN
       IF Top.row + 1 > Len(todo) \/ ~fetchOk
       THEN /\ stack' = SetTop(Fail(Top))
            /\ UNCHANGED mailbox
       ELSE /\ mailbox' = [mailbox EXCEPT
                              ![Top.acct] = ServerFetchRFC822(@, todo[Top.row + 1])]
            /\ stack' = SetTop(IF decodeOk
                               THEN [Top EXCEPT !.email_id = todo[Top.row + 1],
                                                !.pc = "viewer"]
                               ELSE Fail(Top))
    /\ UNCHANGED <<proc, file, config, account_selector, current_setup, vault,
                   email_table, progress, attachments, failedAdds, shown>>

\* the viewer is closed (the with block is left) or the error box is confirmed
ViewReturn ==
    /\ stack # <<>> /\ Top.op = "view" /\ Top.pc \in {"viewer", "msgbox"}
    /\ stack' = Pop
    /\ UnchangedButStack

\* ------------------------------------------------ compose and send
\* New Email: compose_email resets self.attachments and runs dialog.exec()
compose_email ==
    /\ MainWindowInput
    /\ Len(stack) < MaxDepth
    /\ attachments' = 0
    /\ stack' = Append(stack, Frame("compose", "exec"))
    /\ UNCHANGED <<proc, file, config, account_selector, current_setup, vault,
                   email_table, progress, mailbox, failedAdds, shown>>

\* "Add Attachment": self.attachments.extend(files), one file chosen (the file
\* dialog and the information box are taken as one step)
add_attachment ==
    /\ stack # <<>> /\ Top.op = "compose" /\ Top.pc = "exec"
    /\ attachments < MaxAttach
    /\ attachments' = attachments + 1
    /\ UNCHANGED <<proc, file, config, account_selector, current_setup, vault,
                   email_table, progress, mailbox, stack, failedAdds, shown>>

SmtpOrder == <<"connect", "starttls", "login", "send_message">>

\* the state an SMTP session is in after step k of SmtpOrder succeeded
SmtpState == <<"Connected", "Tls", "Authenticated", "Sent">>

\* a with block whose failing step does not raise: the next step is attempted
SmtpStepNoRaise(f, k, ok) ==
    LET g == [f EXCEPT !.smtp = Append(@, [step |-> SmtpOrder[k], ok |-> ok])] IN
    IF k < Len(SmtpOrder)
    THEN [g EXCEPT !.sess = SmtpState[k], !.pc = SmtpOrder[k + 1]]
    ELSE [g EXCEPT !.sess = "Disconnected", !.pc = "info"]

\* step k of the with block of send_email: smtplib.SMTP(...), server.starttls(),
\* server.login(...), server.send_message(msg). Each raises on failure, which
\* leaves the with block (SMTP.__exit__ closes) for the except clause; after
\* the last step the block is left and the success box is shown.
SmtpStep(f, k, ok) ==
    LET g == [f EXCEPT !.smtp = Append(@, [step |-> SmtpOrder[k], ok |-> ok])] IN
    IF ~ok THEN Fail(g)
    ELSE IF k < Len(SmtpOrder)
    THEN [g EXCEPT !.sess = SmtpState[k], !.pc = SmtpOrder[k + 1]]
    ELSE [g EXCEPT !.sess = "Disconnected", !.pc = "info"]

\* "Send": send_email up to the with block. config['accounts'][account] raises
\* KeyError without a selected account; open(file_path) may raise (fileOk).
send_email(fileOk) ==
    /\ stack # <<>> /\ Top.op = "compose" /\ Top.pc = "exec"
    /\ Len(stack) < MaxDepth
    /\ LET account == currentText(account_selector)
           f == [Frame("send", "connect") EXCEPT !.acct = account] IN
       stack' = Append(stack,
                   IF account \notin Range(config.keys) \/ (attachments > 0 /\ ~fileOk)
                   THEN Fail(f) ELSE f)
    /\ UnchangedButStack

\* one step of the SMTP session
SmtpDo(k, ok) ==
    /\ stack # <<>> /\ Top.op = "send" /\ Top.pc = SmtpOrder[k]
    /\ stack' = SetTop(SmtpStep(Top, k, ok))
    /\ UnchangedButStack

\* the user confirms the box send_email shows: after "Email sent successfully!"
\* dialog.accept() ends the compose dialog too; after the error box the
\* compose dialog stays open
SendReturn ==
    /\ stack # <<>> /\ Top.op = "send" /\ Top.pc \in {"info", "msgbox"}
    /\ stack' = IF Top.pc = "info" THEN SubSeq(stack, 1, Len(stack) - 2) ELSE Pop
    /\ UnchangedButStack

\* ------------------------------------------------------ specifications
\* account management with two addresses; the user neither opens nor sends mail
Next ==
    \/ Start
    \/ Exit
    \/ \E i \in 1..Cardinality(Address) : SelectAccount(i)
    \/ add_account
    \/ \E p \in Provider : quick_setup(p)
    \/ \E e \in Address, pw \in Secret, vaultOk \in BOOLEAN, hook \in BOOLEAN :
          save_account(e, pw, vaultOk, hook)
    \/ CloseDialog
    \/ TimerTimeout
    \/ RefreshClicked
    \/ \E ok \in BOOLEAN : ImapConnect(ok)
    \/ \E ok \in BOOLEAN : ImapLogin(ok)
    \/ \E ok \in BOOLEAN : ImapSelect(ok)
    \/ \E ok \in BOOLEAN : ImapSearch(ok)
    \/ \E failAt \in 0..MaxFailAt, afterSeen \in BOOLEAN : RefreshFetch(failAt, afterSeen)
    \/ RefreshDisplay
    \/ RefreshFinally

Spec == Init /\ [][Next]_vars

\* Reading and sending mail with one account: the state after the first start
\* (no config file yet), the add of Alice's account and the return of the
\* refresh that save_account issues, against an INBOX of n unread messages.
InitMail ==
    /\ proc = "running"
    /\ config = ConfigSet(EmptyConfig, Alice, providers("Gmail"))
    /\ file = [exists |-> TRUE, text |-> json_dumps(config)]
    /\ account_selector = update_account_list(config)
    /\ current_setup = <<providers("Gmail")>>
    /\ vault = [a \in Address |-> IF a = Alice THEN "hunter2" ELSE NotFound]
    /\ email_table = <<>>
    /\ progress = FALSE
    /\ attachments = 0
    /\ \E n \in 0..MaxMsgs :
          mailbox = [a \in Address |-> IF a = Alice THEN [n |-> n, seen |-> {}]
                                       ELSE EmptyMailbox]
    /\ stack = <<>>
    /\ failedAdds = {}
    /\ shown = NoShown

NextMail ==
    \/ Deliver(Alice)
    \/ TimerTimeout
    \/ RefreshClicked
    \/ \E ok \in BOOLEAN : ImapConnect(ok)
    \/ \E ok \in BOOLEAN : ImapLogin(ok)
    \/ \E ok \in BOOLEAN : ImapSelect(ok)
    \/ \E ok \in BOOLEAN : ImapSearch(ok)
    \/ \E failAt \in 0..MaxFailAt, afterSeen \in BOOLEAN : RefreshFetch(failAt, afterSeen)
    \/ RefreshDisplay
    \/ RefreshFinally
    \/ \E row \in 0..MaxRow : view_email(row)
    \/ \E fetchOk \in BOOLEAN, decodeOk \in BOOLEAN : ViewFetch(fetchOk, decodeOk)
    \/ ViewReturn
    \/ compose_email
    \/ add_attachment
    \/ CloseDialog
    \/ \E fileOk \in BOOLEAN : send_email(fileOk)
    \/ \E k \in 1..Len(SmtpOrder), ok \in BOOLEAN : SmtpDo(k, ok)
    \/ SendReturn

SpecMail == InitMail /\ [][NextMail]_vars

\* ------------------------------------------------------------- claims
OpenImap(f) == f.op \in {"refresh", "view"} /\ f.sess # "Disconnected"

\* C1: an address whose add stopped at a failing vault write is absent from
\* the account mapping, from the account selector and from the config file.
C1_AtomicAdd ==
    \A a \in failedAdds :
        /\ a \notin Range(config.keys)
        /\ a \notin Range(account_selector.items)
        /\ file.exists => a \notin Range(json_loads(file.text).keys)

\* C2: at most one refresh_emails IMAP session is open at any time, whatever
\* the interleaving of timer, button and save_account refreshes.
C2_RefreshExclusive ==
    Cardinality({i \in 1..Len(stack) :
                    stack[i].op = "refresh" /\ stack[i].sess # "Disconnected"}) <= 1

\* a second refresh is in its session while the first has not yet returned
C2_Witness ==
    \E i, j \in 1..Len(stack) :
        /\ i < j
        /\ stack[i].op = "refresh" /\ stack[j].op = "refresh"
        /\ stack[j].sess = "MailboxSelected"

\* C3: after a successful refresh over a SEARCH result of N ids the table has
\* min(N, 20) rows and row r (from 0) shows id N - r; N = 0 gives no row and
\* no error.
C3_FetchBound ==
    \A i \in 1..Len(stack) :
        (stack[i].op = "refresh" /\ stack[i].pc = "displayed") =>
            LET N == Len(stack[i].ids) IN
            /\ Len(email_table) = Min(N, FetchLimit)
            /\ \A r \in 1..Len(email_table) : email_table[r].msg = stack[i].ids[N - r + 1]

\* a refresh has displayed a mailbox of more than 20 messages
C3_Witness ==
    \E i \in 1..Len(stack) :
        /\ stack[i].op = "refresh" /\ stack[i].pc = "displayed"
        /\ Len(stack[i].ids) > FetchLimit

\* C4: a completed Save Account for address e, with settings chosen in the
\* dialog and secret pw, leaves e -> settings in the mapping, e in the account
\* list and pw in the vault, replacing earlier values of e and changing no
\* other account.
C4_AddPost ==
    [][\A e \in Address, pw \in Secret :
          (save_account(e, pw, TRUE, TRUE) /\ Top.chosen # <<>>) =>
              /\ e \in Range(config'.keys)
              /\ config'.val[e] = Top.chosen[1]
              /\ e \in Range(account_selector'.items)
              /\ vault'[e] = pw
              /\ \A a \in Address \ {e} :
                    /\ vault'[a] = vault[a]
                    /\ a \in Range(config.keys) <=> a \in Range(config'.keys)
                    /\ a \in Range(config.keys) => config'.val[a] = config.val[a]]_vars

\* save_account has just overwritten an existing account beside another one
C4_Witness ==
    /\ stack # <<>> /\ Top.op = "refresh" /\ Top.src = "save_over" /\ Top.pc = "connect"
    /\ Len(config.keys) = 2
    /\ \A a \in Address : vault[a] # NotFound
    /\ failedAdds = {}

\* C5: a start with the config file present completes initialisation with the
\* file's mapping loaded and listed in the account selector.
C5_Durable ==
    [][(proc \in {"exited", "aborted"} /\ file.exists /\ proc' # proc) =>
          /\ proc' = "running"
          /\ config' = json_loads(file.text)
          /\ account_selector'.items = json_loads(file.text).keys]_vars

\* every refresh frame past its with block has its session closed
C6_Closed ==
    \A i \in 1..Len(stack) :
        (stack[i].op = "refresh" /\ stack[i].pc \in {"msgbox", "displayed"}) =>
            stack[i].sess = "Disconnected"

\* the table changes only in the display step of a refresh whose fetches all
\* succeeded, and no other step of a refresh touches it
C6_TableStep ==
    /\ email_table' # email_table =>
          \/ proc' # "running"
          \/ /\ stack # <<>> /\ Top.op = "refresh" /\ Top.pc = "display"
             /\ Len(Top.emails) = Len(Last20(Top.ids))
    /\ (stack # <<>> /\ Top.op = "refresh" /\ Top.pc # "display") =>
          email_table' = email_table

\* C6: a refresh in which any step fails shows no partial list (the table is
\* as before) and on every exit path its IMAP session ends Disconnected.
C6_AbortClean == [](C6_Closed) /\ [][C6_TableStep]_vars

\* a refresh failed after collecting part of the summaries, over a filled table
C6_Witness ==
    \E i \in 1..Len(stack) :
        /\ stack[i].op = "refresh" /\ stack[i].pc = "msgbox"
        /\ stack[i].emails # <<>>
        /\ Len(stack[i].emails) < Len(Last20(stack[i].ids))
        /\ email_table # <<>>

\* C7: the SMTP steps run in the order connect, STARTTLS, login, send; none
\* follows a failed one; the session is closed once send_email left the with.
C7_Staging ==
    \A i \in 1..Len(stack) :
        stack[i].op = "send" =>
            LET L == stack[i].smtp IN
            /\ Len(L) <= Len(SmtpOrder)
            /\ \A k \in 1..Len(L) : L[k].step = SmtpOrder[k] /\ (k < Len(L) => L[k].ok)
            /\ (L # <<>> /\ ~L[Len(L)].ok) => stack[i].pc = "msgbox"
            /\ stack[i].pc \in {"msgbox", "info"} => stack[i].sess = "Disconnected"
            /\ stack[i].pc = "info" => (Len(L) = Len(SmtpOrder) /\ L[Len(L)].ok)

\* STARTTLS failed after a successful connect and nothing further was sent
C7_Witness ==
    \E i \in 1..Len(stack) :
        /\ stack[i].op = "send" /\ stack[i].pc = "msgbox"
        /\ Len(stack[i].smtp) = 2
        /\ stack[i].smtp[1].ok /\ ~stack[i].smtp[2].ok

\* C8: with the account and the mailbox's messages as they were at the refresh
\* that filled the table, the message opened from row r is the one shown in row r.
C8_RowConsistent ==
    \A i \in 1..Len(stack) :
        (/\ stack[i].op = "view" /\ stack[i].pc = "viewer"
         /\ shown.acct = stack[i].acct
         /\ shown.n = Len(stack[i].ids)
         /\ stack[i].row < Len(email_table)) =>
            stack[i].email_id = email_table[stack[i].row + 1].msg

\* C9: at most one IMAP session (refresh or view) per account is open.
C9_SingleSession ==
    \A a \in Address :
        Cardinality({i \in 1..Len(stack) : OpenImap(stack[i]) /\ stack[i].acct = a}) <= 1

\* C10: no step of refresh_emails changes a \Seen flag on the server, and a
\* message unseen before the fetch loop is listed as unread.
C10_SeenKept ==
    [][(stack # <<>> /\ Top.op = "refresh" /\ Loop = "busy") =>
          /\ \A a \in Address : mailbox'[a].seen = mailbox[a].seen
          /\ (Top.pc = "fetch" /\ stack' # <<>>) =>
                \A k \in 1..Len(stack'[Len(stack')].emails) :
                    LET m == stack'[Len(stack')].emails[k] IN
                    m.id \notin mailbox[Top.acct].seen => m.status = "unread"]_vars

====
